---- MODULE Spec2Model ----
(***************************************************************************)
(* Model of the zkVM input script (testing/zkvm-script/src/main.rs) and of *)
(* the alloy RPC conversions (crates/primitives/src/alloy_compat.rs).      *)
(*                                                                         *)
(* Five specifications share the module:                                   *)
(*   SpecTx     TryFrom<alloy_rpc_types::Transaction> for Transaction      *)
(*   SpecSig    the per-transaction closure of the Block conversion        *)
(*   SpecBlock  TryFrom<alloy_rpc_types::Block> for Block                  *)
(*   SpecVerify FullAccountProof::verify                                   *)
(*   Spec       main: get_input followed by verify_stf                     *)
(*                                                                         *)
(* Results are records: [tag |-> "Ok", val |-> v], [tag |-> "Err",         *)
(* err |-> e], or [tag |-> "Panic"] for a Rust panic (unwrap on None,      *)
(* todo!()).  Options are [some |-> FALSE] or [some |-> TRUE, val |-> v].  *)
(***************************************************************************)
EXTENDS Integers, Sequences, FiniteSets, TLC

VARIABLES
    optimism,       \* cfg(feature = "optimism") of the build
    tx,             \* SpecTx/SpecSig: the alloy_rpc_types::Transaction input
    tx_result,      \* SpecTx: result of Transaction::try_from(tx)
    recovery_id,    \* SpecSig: the closure's local recovery_id
    signed_result,  \* SpecSig: result of the closure
    rpc_block,      \* SpecBlock: the alloy_rpc_types::Block input
    block_result,   \* SpecBlock: result of Block::try_from(rpc_block)
    proof,          \* SpecVerify: the FullAccountProof (self)
    state_root,     \* SpecVerify: the state_root argument
    verify_result,  \* SpecVerify: result of verify
    pc,             \* Spec: position in main / get_input / verify_stf
    net,            \* Spec: what the node answers for the two blocks, and
                    \*       what the executor makes of the target block
    block,          \* Spec: get_input's block (converted)
    prev_block,     \* Spec: get_input's prev_block (converted)
    provider_db,    \* Spec: RpcDb's shared map, address -> fetched record and proof
    db,             \* Spec: the accounts CacheDB<RpcDb> holds
    reads,          \* Spec: how many of the block's account reads discovery has done
    queried,        \* Spec: addresses the executor's db asked of provider_db
    disc_result,    \* Spec: what the first executor.execute returned
    disc_runs,      \* Spec: how many times the discovery execution was started
    sp1_input,      \* Spec: get_input's sp1_input
    replay_result,  \* Spec: what the second executor.execute returned
    input_result,   \* Spec: what get_input returned
    stf_result      \* Spec: what verify_stf returned

convVars == <<optimism, tx, tx_result, recovery_id, signed_result, rpc_block, block_result>>
verifyVars == <<proof, state_root, verify_result>>
protoVars == <<pc, net, block, prev_block, provider_db, db, reads, queried, disc_result,
               disc_runs, sp1_input, replay_result, input_result, stf_result>>
vars == <<convVars, verifyVars, protoVars>>

\* ------------------------------------------------------------------ values

None == [some |-> FALSE]
Some(x) == [some |-> TRUE, val |-> x]
Opt(S) == {None} \cup {Some(x) : x \in S}

Ok(v) == [tag |-> "Ok", val |-> v]
Err(e) == [tag |-> "Err", err |-> e]
Panic == [tag |-> "Panic"]
NotRun == [tag |-> "NotRun"]

IsOk(r) == r.tag = "Ok"
IsErr(r) == r.tag = "Err"

\* ------------------------------------------------------------------ bounds

\* Largest signature.v drawn in SpecSig (covers 0, 1, 27, 28, 2..36, 37, 38
\* and the EIP-155 values of chain ids 1..5).
MaxV == 46

\* Longest transaction list of a block drawn in SpecBlock.
MaxTxs == 2

\* ------------------------------------------------------------------ inputs

\* A U256 quantity that is narrowed to u64: lo is the low 64-bit limb, hi is
\* nonzero when any higher limb is set.
WideVals == {[lo |-> 1, hi |-> 0], [lo |-> 1, hi |-> 1]}

\* transaction_type bytes: the four Ethereum types, the Optimism deposit type,
\* and a byte no build knows.
TypeIds == {0, 1, 2, 3, 126, 4}

Signatures == [v : 0..MaxV, y_parity : Opt(BOOLEAN)]

\* alloy_rpc_types::Transaction with its signature drawn from Sigs.  nonce,
\* value and input are copied unchanged by every arm and carry no check.
RpcTxs(Sigs) ==
    [transaction_type : Opt(TypeIds),
     signature : Sigs,
     chain_id : Opt({1}),
     gas_price : Opt({7}),
     max_fee_per_gas : Opt({9}),
     max_priority_fee_per_gas : Opt({2}),
     access_list : Opt({<<>>}),
     blob_versioned_hashes : Opt({<<>>}),
     max_fee_per_blob_gas : Opt({3}),
     gas : WideVals,
     to : Opt({"a"})]

\* Representative transactions for the block-level specifications: the same
\* record with one field changed at a time.
BaseTx ==
    [transaction_type |-> None, signature |-> None, chain_id |-> Some(1),
     gas_price |-> Some(7), max_fee_per_gas |-> None,
     max_priority_fee_per_gas |-> None, access_list |-> None,
     blob_versioned_hashes |-> None, max_fee_per_blob_gas |-> None,
     gas |-> [lo |-> 1, hi |-> 0], to |-> Some("a")]

Base1559 ==
    [BaseTx EXCEPT !.transaction_type = Some(2), !.gas_price = None,
                   !.max_fee_per_gas = Some(9),
                   !.max_priority_fee_per_gas = Some(2),
                   !.access_list = Some(<<>>)]

SampleTxs ==
    {BaseTx,
     [BaseTx EXCEPT !.gas_price = None],
     Base1559,
     [Base1559 EXCEPT !.gas = [lo |-> 1, hi |-> 1]],
     [BaseTx EXCEPT !.transaction_type = Some(126)],
     [BaseTx EXCEPT !.transaction_type = Some(4)]}

WithSig(t, s) == [t EXCEPT !.signature = s]

\* ------------------------------------------------------------------ TxType

\* TxType::try_from(u8): Deposit is a variant only with feature "optimism".
TxTypeTryFrom(id, opt) ==
    CASE id = 0 -> Ok("Legacy")
      [] id = 1 -> Ok("Eip2930")
      [] id = 2 -> Ok("Eip1559")
      [] id = 3 -> Ok("Eip4844")
      [] id = 126 /\ opt -> Ok("Deposit")
      [] OTHER -> Err("UnexpectedType")

\* u64::try_from(U256): fails when a limb above the lowest is set.
TryIntoU64(x) == IF x.hi = 0 THEN Ok(x.lo) ELSE Err("Overflow")

\* tx.to.map_or(TxKind::Create, TxKind::Call)
ToKind(to) == IF to.some THEN [kind |-> "Call", addr |-> to.val] ELSE [kind |-> "Create"]

\* ------------------------------------------------------------------ Transaction

\* The struct literals evaluate their fields in the order written; the first
\* `?` that fails returns.  FirstErr walks a sequence of <<failed, error>>.
RECURSIVE FirstErr(_)
FirstErr(checks) ==
    IF checks = <<>> THEN None
    ELSE IF Head(checks)[1] THEN Some(Head(checks)[2])
    ELSE FirstErr(Tail(checks))

GasOverflow(t) == ~IsOk(TryIntoU64(t.gas))

LegacyArm(t) ==
    IF t.max_fee_per_gas.some \/ t.max_priority_fee_per_gas.some
    THEN Err("Eip1559FieldsInLegacy")
    ELSE LET e == FirstErr(<< <<~t.gas_price.some, "MissingGasPrice">>,
                              <<GasOverflow(t), "Overflow">> >>)
         IN IF e.some THEN Err(e.val)
            ELSE Ok([variant |-> "Legacy",
                     chain_id |-> t.chain_id,
                     gas_price |-> t.gas_price.val,
                     gas_limit |-> TryIntoU64(t.gas).val,
                     to |-> ToKind(t.to)])

\* Mutant: chain_id is copied as an option, as in the Legacy arm.
Eip2930Arm_ChainIdOptional(t) ==
    LET e == FirstErr(<< <<GasOverflow(t), "Overflow">>,
                         <<~t.access_list.some, "MissingAccessList">>,
                         <<~t.gas_price.some, "MissingGasPrice">> >>)
    IN IF e.some THEN Err(e.val)
       ELSE Ok([variant |-> "Eip2930",
                chain_id |-> t.chain_id,
                gas_limit |-> TryIntoU64(t.gas).val,
                to |-> ToKind(t.to),
                access_list |-> t.access_list.val,
                gas_price |-> t.gas_price.val])

Eip2930Arm(t) ==
    LET e == FirstErr(<< <<~t.chain_id.some, "MissingChainId">>,
                         <<GasOverflow(t), "Overflow">>,
                         <<~t.access_list.some, "MissingAccessList">>,
                         <<~t.gas_price.some, "MissingGasPrice">> >>)
    IN IF e.some THEN Err(e.val)
       ELSE Ok([variant |-> "Eip2930",
                chain_id |-> t.chain_id.val,
                gas_limit |-> TryIntoU64(t.gas).val,
                to |-> ToKind(t.to),
                access_list |-> t.access_list.val,
                gas_price |-> t.gas_price.val])

Eip1559Arm(t) ==
    LET e == FirstErr(<< <<~t.chain_id.some, "MissingChainId">>,
                         <<~t.max_priority_fee_per_gas.some, "MissingMaxPriorityFeePerGas">>,
                         <<~t.max_fee_per_gas.some, "MissingMaxFeePerGas">>,
                         <<GasOverflow(t), "Overflow">>,
                         <<~t.access_list.some, "MissingAccessList">> >>)
    IN IF e.some THEN Err(e.val)
       ELSE Ok([variant |-> "Eip1559",
                chain_id |-> t.chain_id.val,
                max_priority_fee_per_gas |-> t.max_priority_fee_per_gas.val,
                max_fee_per_gas |-> t.max_fee_per_gas.val,
                gas_limit |-> TryIntoU64(t.gas).val,
                to |-> ToKind(t.to),
                access_list |-> t.access_list.val])

Eip4844Arm(t) ==
    LET e == FirstErr(<< <<~t.chain_id.some, "MissingChainId">>,
                         <<~t.max_priority_fee_per_gas.some, "MissingMaxPriorityFeePerGas">>,
                         <<~t.max_fee_per_gas.some, "MissingMaxFeePerGas">>,
                         <<GasOverflow(t), "Overflow">>,
                         <<~t.access_list.some, "MissingAccessList">>,
                         <<~t.blob_versioned_hashes.some, "MissingBlobVersionedHashes">>,
                         <<~t.max_fee_per_blob_gas.some, "MissingMaxFeePerBlobGas">> >>)
    IN IF e.some THEN Err(e.val)
       ELSE Ok([variant |-> "Eip4844",
                chain_id |-> t.chain_id.val,
                max_priority_fee_per_gas |-> t.max_priority_fee_per_gas.val,
                max_fee_per_gas |-> t.max_fee_per_gas.val,
                gas_limit |-> TryIntoU64(t.gas).val,
                to |-> ToKind(t.to),
                access_list |-> t.access_list.val,
                blob_versioned_hashes |-> t.blob_versioned_hashes.val,
                max_fee_per_blob_gas |-> t.max_fee_per_blob_gas.val])

\* #[cfg(feature = "optimism")] Some(TxType::Deposit) => todo!()
DepositArm(t) == Panic

\* tx.transaction_type.map(TryInto::try_into).transpose().map_err(..)?
ParseType(t, opt) ==
    IF ~t.transaction_type.some THEN Ok(None)
    ELSE LET r == TxTypeTryFrom(t.transaction_type.val, opt)
         IN IF IsOk(r) THEN Ok(Some(r.val)) ELSE r

TxTryFrom(t, opt) ==
    LET ty == ParseType(t, opt)
    IN IF ~IsOk(ty) THEN ty
       ELSE IF ~ty.val.some \/ ty.val = Some("Legacy") THEN LegacyArm(t)
       ELSE IF ty.val = Some("Eip2930") THEN Eip2930Arm(t)
       ELSE IF ty.val = Some("Eip1559") THEN Eip1559Arm(t)
       ELSE IF ty.val = Some("Eip4844") THEN Eip4844Arm(t)
       ELSE DepositArm(t)

\* ------------------------------------------------------------------ idle parts

\* Each specification drives its own variables; the others rest at these values.
ConvIdle ==
    /\ optimism = FALSE
    /\ tx = None
    /\ tx_result = NotRun
    /\ recovery_id = 0
    /\ signed_result = NotRun
    /\ rpc_block = None
    /\ block_result = NotRun

VerifyIdle ==
    /\ proof = None
    /\ state_root = "root"
    /\ verify_result = NotRun

ProtoIdle ==
    /\ pc = "idle"
    /\ net = None
    /\ block = None
    /\ prev_block = None
    /\ provider_db = <<>>
    /\ db = <<>>
    /\ reads = 0
    /\ queried = {}
    /\ disc_result = NotRun
    /\ disc_runs = 0
    /\ sp1_input = None
    /\ replay_result = NotRun
    /\ input_result = NotRun
    /\ stf_result = NotRun

\* ------------------------------------------------------------------ SpecTx

InitTx ==
    /\ VerifyIdle
    /\ ProtoIdle
    /\ optimism \in BOOLEAN
    /\ tx \in RpcTxs(Opt({[v |-> 0, y_parity |-> None]}))
    /\ tx_result = NotRun
    /\ recovery_id = 0
    /\ signed_result = NotRun
    /\ rpc_block = None
    /\ block_result = NotRun

ConvertTx ==
    /\ tx_result = NotRun
    /\ tx_result' = TxTryFrom(tx, optimism)
    /\ UNCHANGED <<optimism, tx, recovery_id, signed_result, rpc_block, block_result, verifyVars, protoVars>>

NextTx == ConvertTx

SpecTx == InitTx /\ [][NextTx]_vars

\* ------------------------------------------------------------------ claims on SpecTx

TxDone == tx_result # NotRun

FourTypes == {"Legacy", "Eip2930", "Eip1559", "Eip4844"}

\* The type a transaction declares: an absent type reads as Legacy.
Declared(t) ==
    IF ~t.transaction_type.some THEN "Legacy"
    ELSE CASE t.transaction_type.val = 0 -> "Legacy"
           [] t.transaction_type.val = 1 -> "Eip2930"
           [] t.transaction_type.val = 2 -> "Eip1559"
           [] t.transaction_type.val = 3 -> "Eip4844"
           [] t.transaction_type.val = 126 -> "Deposit"
           [] OTHER -> "Unknown"

\* The fields each variant cannot be built without.
Mandatory(variant) ==
    CASE variant = "Legacy" -> {"gas_price"}
      [] variant = "Eip2930" -> {"chain_id", "access_list", "gas_price"}
      [] variant = "Eip1559" -> {"chain_id", "max_fee_per_gas",
                                 "max_priority_fee_per_gas", "access_list"}
      [] variant = "Eip4844" -> {"chain_id", "max_fee_per_gas",
                                 "max_priority_fee_per_gas", "access_list",
                                 "blob_versioned_hashes", "max_fee_per_blob_gas"}
      [] OTHER -> {}

\* The fields whose check is evaluated before the gas narrowing.
BeforeGas(variant) ==
    CASE variant = "Legacy" -> {"gas_price"}
      [] variant = "Eip2930" -> {"chain_id"}
      [] OTHER -> {"chain_id", "max_fee_per_gas", "max_priority_fee_per_gas"}

HasFeeFields(t) == t.max_fee_per_gas.some \/ t.max_priority_fee_per_gas.some

\* What C10 says of every clause but the gas one.
C10_Dispatch ==
    LET d == Declared(tx) IN
    /\ IsOk(tx_result) =>
          /\ tx_result.val.variant = d
          /\ \A f \in Mandatory(d) : tx[f].some /\ tx_result.val[f] = tx[f].val
          /\ ~GasOverflow(tx) /\ tx_result.val.gas_limit = tx.gas.lo
          /\ (d = "Legacy" => ~HasFeeFields(tx))
    /\ (d = "Legacy" /\ HasFeeFields(tx)) => IsErr(tx_result)
    /\ (d \in FourTypes /\ \E f \in Mandatory(d) : ~tx[f].some) => IsErr(tx_result)
    /\ (d = "Unknown" \/ (d = "Deposit" /\ ~optimism)) => tx_result = Err("UnexpectedType")

\* C7: converting a transaction whose type is the deposit variant yields an
\* explicit error value, never an uncontrolled abort.
C7_DepositYieldsError ==
    (TxDone /\ Declared(tx) = "Deposit") => IsErr(tx_result)

\* C10 as stated: the dispatch clauses, and a gas value that does not fit the
\* target width yields the Overflow error (read for the four supported types).
C10_Original ==
    TxDone =>
      /\ C10_Dispatch
      /\ (Declared(tx) \in FourTypes /\ GasOverflow(tx)) => tx_result = Err("Overflow")

\* C10 (amended): the conversion dispatches on the declared type (absent =
\* Legacy) and a produced variant equals the declared type and carries every
\* mandatory field; Legacy with an EIP-1559 fee field, a missing mandatory
\* field and an unknown type are errors (UnexpectedType for the last); a gas
\* value that does not fit always yields an error, and that error is Overflow
\* unless a check evaluated before the gas narrowing fails first.
C10_Conversion ==
    TxDone =>
      LET d == Declared(tx) IN
      /\ C10_Dispatch
      /\ (d \in FourTypes /\ GasOverflow(tx)) =>
            /\ IsErr(tx_result)
            /\ ((\A f \in BeforeGas(d) : tx[f].some) /\ ~(d = "Legacy" /\ HasFeeFields(tx)))
                  => tx_result = Err("Overflow")

\* C10 witness: an EIP-1559 transaction lacking only its access list, with a
\* gas value that does not fit, was converted and answered Overflow.
C10_Witness ==
    /\ tx.transaction_type = Some(2)
    /\ ~tx.access_list.some
    /\ tx_result = Err("Overflow")

\* ------------------------------------------------------------------ Block

\* U256 values are held by their representative in (-2^255, 2^255): the `-`
\* of U256 wraps, so a negative representative r is the value 2^256 + r.
WrappingSub(a, b) == a - b

\* let recovery_id = if signature.v > U256::from(1) { signature.v - U256::from(37) }
\*                   else { signature.v };
RecoveryId(v) == IF v > 1 THEN WrappingSub(v, 37) ELSE v

\* signature.y_parity.unwrap_or(Parity(recovery_id == U256::from(1))).0
OddYParity(sig) ==
    IF sig.y_parity.some THEN sig.y_parity.val ELSE RecoveryId(sig.v) = 1

\* Mutant: the transaction is converted before the signature is looked at.
MapTx_ConvertFirst(t, opt) ==
    LET conv == TxTryFrom(t, opt)
    IN IF ~IsOk(conv) THEN conv
       ELSE IF ~t.signature.some THEN Err("MissingSignature")
       ELSE Ok([transaction |-> conv.val,
                signature |-> [odd_y_parity |-> OddYParity(t.signature.val)]])

\* The closure mapped over BlockTransactions::Full.  The signature's r and s
\* are copied unchanged and carry no check.
MapTx(t, opt) ==
    IF ~t.signature.some THEN Err("MissingSignature")
    ELSE LET conv == TxTryFrom(t, opt)
         IN IF ~IsOk(conv) THEN conv
            ELSE Ok([transaction |-> conv.val,
                     signature |-> [odd_y_parity |-> OddYParity(t.signature.val)]])

\* .map(..).collect::<Result<Vec<_>, _>>(): the iterator is lazy and stops at
\* the first element that is not Ok; a panic unwinds from the element it is in.
RECURSIVE CollectFrom(_, _, _)
CollectFrom(txs, opt, acc) ==
    IF txs = <<>> THEN Ok(acc)
    ELSE LET r == MapTx(Head(txs), opt)
         IN IF IsOk(r) THEN CollectFrom(Tail(txs), opt, Append(acc, r.val))
            ELSE r

Collect(txs, opt) == CollectFrom(txs, opt, <<>>)

\* Option<U256>.map(|x| x.try_into().map_err(E)).transpose()
NarrowOpt(o) == o.some /\ ~IsOk(TryIntoU64(o.val))
NarrowedOpt(o) == IF o.some THEN Some(TryIntoU64(o.val).val) ELSE None

\* TryFrom<alloy_rpc_types::Header> for Header: the narrowed fields, the block
\* number and state_root; the remaining fields are copied unchanged.
HeaderTryFrom(h) ==
    LET e == FirstErr(<< <<NarrowOpt(h.base_fee_per_gas), "BaseFeePerGasConversion">>,
                         <<NarrowOpt(h.blob_gas_used), "BlobGasUsedConversion">>,
                         <<NarrowOpt(h.excess_blob_gas), "ExcessBlobGasConversion">>,
                         <<~IsOk(TryIntoU64(h.gas_limit)), "GasLimitConversion">>,
                         <<~IsOk(TryIntoU64(h.gas_used)), "GasUsedConversion">>,
                         <<~h.number.some, "MissingBlockNumber">> >>)
    IN IF e.some THEN Err(e.val)
       ELSE Ok([base_fee_per_gas |-> NarrowedOpt(h.base_fee_per_gas),
                blob_gas_used |-> NarrowedOpt(h.blob_gas_used),
                excess_blob_gas |-> NarrowedOpt(h.excess_blob_gas),
                gas_limit |-> TryIntoU64(h.gas_limit).val,
                gas_used |-> TryIntoU64(h.gas_used).val,
                number |-> h.number.val,
                state_root |-> h.state_root])

BlockTryFrom(b, opt) ==
    IF b.transactions.kind # "Full" THEN Err("MissingFullTransactions")
    ELSE LET body == Collect(b.transactions.txs, opt)
         IN IF ~IsOk(body) THEN body
            ELSE LET header == HeaderTryFrom(b.header)
                 IN IF ~IsOk(header) THEN header
                    ELSE Ok([header |-> header.val,
                             body |-> body.val,
                             ommers |-> <<>>,
                             withdrawals |-> b.withdrawals])

\* ------------------------------------------------------------------ SpecSig

InitSig ==
    /\ VerifyIdle
    /\ ProtoIdle
    /\ optimism \in BOOLEAN
    /\ tx \in {WithSig(t, s) : t \in SampleTxs, s \in Opt(Signatures)}
    /\ tx_result = NotRun
    /\ recovery_id = 0
    /\ signed_result = NotRun
    /\ rpc_block = None
    /\ block_result = NotRun

\* One call of the closure; recovery_id is assigned only past the signature's `?`.
ConvertSigned ==
    /\ signed_result = NotRun
    /\ signed_result' = MapTx(tx, optimism)
    /\ recovery_id' = IF tx.signature.some THEN RecoveryId(tx.signature.val.v) ELSE recovery_id
    /\ UNCHANGED <<optimism, tx, tx_result, rpc_block, block_result, verifyVars, protoVars>>

NextSig == ConvertSigned

SpecSig == InitSig /\ [][NextSig]_vars

\* The recovery id an Ethereum signature value v stands for: v itself for 0
\* and 1, v - 27 for the pre-EIP-155 values, the parity bit of an EIP-155 v.
HasRecId(v) == v \in {0, 1, 27, 28} \/ v >= 35
RecIdOf(v) == IF v \in {0, 1} THEN v ELSE IF v \in {27, 28} THEN v - 27 ELSE (v - 35) % 2

\* C8: the recovery-id step never underflows (the U256 result is v - 37 or v,
\* not a wrapped value), and with y_parity absent odd_y_parity is true exactly
\* when the signature's recovery id is 1.
C8_RecoveryId ==
    (signed_result # NotRun /\ tx.signature.some) =>
      LET sig == tx.signature.val IN
      /\ recovery_id >= 0
      /\ (IsOk(signed_result) /\ ~sig.y_parity.some /\ HasRecId(sig.v)) =>
            (signed_result.val.signature.odd_y_parity <=> RecIdOf(sig.v) = 1)

\* C8, the parity half alone, on the pre-EIP-155 value 28.
C8_LegacyParity ==
    (IsOk(signed_result) /\ tx.signature = Some([v |-> 28, y_parity |-> None])) =>
      signed_result.val.signature.odd_y_parity

\* ------------------------------------------------------------------ SpecBlock

SampleSigs == {None, Some([v |-> 28, y_parity |-> None])}

\* Headers: each narrowed field fits or not, the number is present or not.
HeaderVals ==
    {[base_fee_per_gas |-> bf, blob_gas_used |-> bg, excess_blob_gas |-> None,
      gas_limit |-> gl, gas_used |-> [lo |-> 1, hi |-> 0], number |-> n,
      state_root |-> "root"] :
        bf \in Opt(WideVals), bg \in {None}, gl \in WideVals, n \in Opt({1})}
      \cup
    {[base_fee_per_gas |-> None, blob_gas_used |-> bg, excess_blob_gas |-> eg,
      gas_limit |-> [lo |-> 1, hi |-> 0], gas_used |-> gu, number |-> Some(1),
      state_root |-> "root"] :
        bg \in Opt(WideVals), eg \in Opt(WideVals), gu \in WideVals}

RECURSIVE SeqsUpTo(_, _)
SeqsUpTo(S, n) ==
    IF n = 0 THEN {<<>>}
    ELSE LET shorter == SeqsUpTo(S, n - 1)
         IN shorter \cup {Append(s, x) : s \in shorter, x \in S}

BlockTransactions ==
    {[kind |-> "Hashes"], [kind |-> "Uncle"]}
      \cup {[kind |-> "Full", txs |-> s] :
              s \in SeqsUpTo({WithSig(t, g) : t \in SampleTxs, g \in SampleSigs}, MaxTxs)}

InitBlock ==
    /\ VerifyIdle
    /\ ProtoIdle
    /\ optimism \in BOOLEAN
    /\ tx = None
    /\ tx_result = NotRun
    /\ recovery_id = 0
    /\ signed_result = NotRun
    /\ rpc_block \in [transactions : BlockTransactions,
                      header : HeaderVals,
                      withdrawals : Opt({<<>>})]
    /\ block_result = NotRun

ConvertBlock ==
    /\ block_result = NotRun
    /\ block_result' = BlockTryFrom(rpc_block, optimism)
    /\ UNCHANGED <<optimism, tx, tx_result, recovery_id, signed_result, rpc_block, verifyVars, protoVars>>

NextBlock == ConvertBlock

SpecBlock == InitBlock /\ [][NextBlock]_vars

\* ------------------------------------------------------------------ claims on SpecBlock

BlockDone == block_result # NotRun

IsFull(b) == b.transactions.kind = "Full"

\* Transaction i stops the conversion: it lacks a signature or does not convert.
Stops(b, i) ==
    \/ ~b.transactions.txs[i].signature.some
    \/ ~IsOk(TxTryFrom(b.transactions.txs[i], optimism))

\* What the conversion answers at a transaction that stops it.
StopAnswer(t) ==
    IF ~t.signature.some THEN Err("MissingSignature") ELSE TxTryFrom(t, optimism)

\* The success clause: a Block only when everything converted, the body in
\* the input's order and length, ommers empty.
C9_Success ==
    IsOk(block_result) =>
      /\ IsFull(rpc_block)
      /\ \A i \in 1..Len(rpc_block.transactions.txs) : ~Stops(rpc_block, i)
      /\ IsOk(HeaderTryFrom(rpc_block.header))
      /\ block_result.val.header = HeaderTryFrom(rpc_block.header).val
      /\ Len(block_result.val.body) = Len(rpc_block.transactions.txs)
      /\ \A i \in 1..Len(rpc_block.transactions.txs) :
            block_result.val.body[i].transaction =
                TxTryFrom(rpc_block.transactions.txs[i], optimism).val
      /\ block_result.val.ommers = <<>>

\* C9 as stated, in a build without the optimism feature (where no
\* transaction aborts): MissingFullTransactions for hashes and uncles,
\* MissingSignature when any transaction lacks a signature, otherwise the first
\* conversion error of a transaction or of the header, a Block only when
\* everything converted.
C9_Original ==
    (BlockDone /\ ~optimism) =>
      LET txs == rpc_block.transactions.txs
          unsigned == {i \in 1..Len(txs) : ~txs[i].signature.some}
          failing == {i \in 1..Len(txs) : ~IsOk(TxTryFrom(txs[i], optimism))}
      IN
      /\ ~IsFull(rpc_block) => block_result = Err("MissingFullTransactions")
      /\ (IsFull(rpc_block) /\ unsigned # {}) => block_result = Err("MissingSignature")
      /\ (IsFull(rpc_block) /\ unsigned = {} /\ failing # {}) =>
            \E i \in failing :
                /\ \A j \in failing : i <= j
                /\ block_result = TxTryFrom(txs[i], optimism)
      /\ (IsFull(rpc_block) /\ unsigned = {} /\ failing = {}
            /\ ~IsOk(HeaderTryFrom(rpc_block.header))) =>
                block_result = HeaderTryFrom(rpc_block.header)
      /\ C9_Success

\* C9 (amended): MissingFullTransactions for hashes and uncles; otherwise the
\* transactions are taken in order and the first one that lacks a signature
\* or does not convert decides the answer: MissingSignature if it lacks a
\* signature, else the outcome of its conversion (its error; the abort of a
\* deposit transaction in an optimism build); if none stops, the header's
\* error if it has one; a Block only when everything converted, the body in
\* the input's order and length, ommers empty.
C9_AllOrNothing ==
    BlockDone =>
      /\ ~IsFull(rpc_block) => block_result = Err("MissingFullTransactions")
      /\ IsFull(rpc_block) =>
            LET txs == rpc_block.transactions.txs
                stops == {i \in 1..Len(txs) : Stops(rpc_block, i)}
            IN
            /\ stops # {} =>
                  \E i \in stops :
                      /\ \A j \in stops : i <= j
                      /\ block_result = StopAnswer(txs[i])
            /\ (stops = {} /\ ~IsOk(HeaderTryFrom(rpc_block.header))) =>
                  block_result = HeaderTryFrom(rpc_block.header)
            /\ (stops = {} /\ IsOk(HeaderTryFrom(rpc_block.header))) => IsOk(block_result)
      /\ C9_Success

\* C9 witness: a converted two-transaction block whose first transaction is
\* signed and fails to convert and whose second lacks a signature.
C9_Witness ==
    /\ BlockDone
    /\ IsFull(rpc_block)
    /\ Len(rpc_block.transactions.txs) = 2
    /\ rpc_block.transactions.txs[1].signature.some
    /\ ~rpc_block.transactions.txs[2].signature.some
    /\ block_result = Err("MissingGasPrice")

\* ------------------------------------------------------------------ FullAccountProof

\* Bytecodes; "" is the empty code.
Codes == {"", "c1", "c2"}

\* keccak256 as an injection: distinct codes have distinct hashes.
Keccak256(code) == <<"keccak256", code>>

StateRoots == {"root", "other"}

\* AccountProof: `root` is the root its proof nodes hash to for the claimed
\* record; info is None for an absent account, bytecode_hash is None for an
\* account without code.
AccountProofs(Balances) ==
    [root : StateRoots,
     info : Opt([balance : Balances,
                 bytecode_hash : Opt({Keccak256(c) : c \in Codes})])]

FullAccountProofs(Balances) == [account_proof : AccountProofs(Balances), code : Codes]

\* AccountProof::verify(state_root)
AccountProofVerify(ap, root) ==
    IF ap.root = root THEN Ok("unit") ELSE Err("ProofInvalid")

\* Option::unwrap
Unwrap(o) == IF o.some THEN Ok(o.val) ELSE Panic

\* Mutant: the comparison is inverted.
CodeHashCheck_Inverted(declared, code) ==
    IF declared = Keccak256(code)
    THEN Err("Code hash does not match the code")
    ELSE Ok("unit")

\* The comparison of the declared hash with the hash of the bundled code.
CodeHashCheck(declared, code) ==
    IF declared # Keccak256(code)
    THEN Err("Code hash does not match the code")
    ELSE Ok("unit")

\* FullAccountProof::verify
FullAccountProofVerify(p, root) ==
    LET inclusion == AccountProofVerify(p.account_proof, root)
    IN IF ~IsOk(inclusion) THEN inclusion
       ELSE LET info == Unwrap(p.account_proof.info)
            IN IF ~IsOk(info) THEN info
               ELSE LET hash == Unwrap(info.val.bytecode_hash)
                    IN IF ~IsOk(hash) THEN hash
                       ELSE CodeHashCheck(hash.val, p.code)

\* ------------------------------------------------------------------ SpecVerify

InitVerify ==
    /\ ConvIdle
    /\ ProtoIdle
    /\ proof \in FullAccountProofs({0})
    /\ state_root \in StateRoots
    /\ verify_result = NotRun

Verify ==
    /\ verify_result = NotRun
    /\ verify_result' = FullAccountProofVerify(proof, state_root)
    /\ UNCHANGED <<proof, state_root, convVars, protoVars>>

NextVerify == Verify

SpecVerify == InitVerify /\ [][NextVerify]_vars

VerifyDone == verify_result # NotRun

InclusionHolds == IsOk(AccountProofVerify(proof.account_proof, state_root))

DeclaresCodeHash ==
    /\ proof.account_proof.info.some
    /\ proof.account_proof.info.val.bytecode_hash.some

\* C3: for a witness whose inclusion proof verifies and whose record declares
\* a code hash, verify returns the code-hash error when keccak256 of the
\* bundled bytecode differs from the declared hash and success when they are
\* equal.
C3_CodeHashChecked ==
    (VerifyDone /\ InclusionHolds /\ DeclaresCodeHash) =>
      IF proof.account_proof.info.val.bytecode_hash.val = Keccak256(proof.code)
      THEN verify_result = Ok("unit")
      ELSE verify_result = Err("Code hash does not match the code")

\* C3 witness: a verified witness whose bytecode was replaced while the
\* declared hash was kept, and which verify rejected.
C3_Witness ==
    /\ VerifyDone
    /\ InclusionHolds
    /\ DeclaresCodeHash
    /\ proof.account_proof.info.val.bytecode_hash.val = Keccak256("c1")
    /\ proof.code = "c2"
    /\ IsErr(verify_result)

\* C4: for a witness whose inclusion proof is valid and whose account is
\* absent or declares no code hash, verify skips the comparison and returns
\* success as a value.
C4_ExemptAccountsAccepted ==
    (VerifyDone /\ InclusionHolds /\ ~DeclaresCodeHash) => verify_result = Ok("unit")

\* ------------------------------------------------------------------ protocol inputs

\* Addresses besides the one get_input fetches by hand.
NumAddr == 1

\* Longest sequence of account reads the executor makes for the block.
MaxReads == 2

\* "0x4e68ccd3e89f51c3074ca5072bbac773960dfa36"
HardcodedAddress == 0

Addresses == 0..NumAddr

\* What the node may answer for the two block requests: nothing, a block
\* that converts, a block with hashes only, a block with an unsigned
\* transaction.
GoodHeader ==
    [base_fee_per_gas |-> None, blob_gas_used |-> None, excess_blob_gas |-> None,
     gas_limit |-> [lo |-> 1, hi |-> 0], gas_used |-> [lo |-> 1, hi |-> 0],
     number |-> Some(1), state_root |-> "root"]

GoodBlock ==
    [transactions |-> [kind |-> "Full",
                       txs |-> <<WithSig(BaseTx, Some([v |-> 37, y_parity |-> None]))>>],
     header |-> GoodHeader, withdrawals |-> None]

NodeBlocks ==
    {None, Some(GoodBlock),
     Some([GoodBlock EXCEPT !.transactions = [kind |-> "Hashes"]]),
     Some([GoodBlock EXCEPT !.transactions = [kind |-> "Full", txs |-> <<BaseTx>>]])}

\* What the executor makes of the target block: whether every sender can be
\* recovered, the validation error it reports if any, and the accounts it
\* reads, in order.
BlockFacts ==
    [senders_ok : BOOLEAN,
     validation : Opt({"BlockGasUsed"}),
     touches : SeqsUpTo(Addresses, MaxReads)]

\* What the node answers for one account: the record it reports and the
\* proof material, which need not agree with each other or with any root.
ClaimedCode == [balance |-> 0, bytecode_hash |-> Some(Keccak256("c1"))]

SampleProofs ==
    {[account_proof |-> [root |-> "root", info |-> Some(ClaimedCode)], code |-> "c1"],
     [account_proof |-> [root |-> "root", info |-> Some(ClaimedCode)], code |-> "c2"],
     [account_proof |-> [root |-> "other", info |-> Some(ClaimedCode)], code |-> "c1"],
     [account_proof |-> [root |-> "root",
                         info |-> Some([balance |-> 0, bytecode_hash |-> None])],
      code |-> ""],
     [account_proof |-> [root |-> "root", info |-> None], code |-> ""]}

AccountAnswers == [balance : {0, 1}, proof : SampleProofs]

Unavailable == [unavailable |-> TRUE]

Range(s) == {s[i] : i \in 1..Len(s)}

\* ------------------------------------------------------------------ stores and executor

\* RpcDb::fetch_account_info: an address already in the shared map is
\* answered from it; otherwise the node's answer is recorded and returned.
RpcDbAfterFetch(pdb, a, answer) ==
    IF a \in DOMAIN pdb \/ answer = Unavailable THEN pdb
    ELSE [x \in (DOMAIN pdb) \cup {a} |-> IF x = a THEN answer ELSE pdb[x]]

RpcDbFetched(pdb, a, answer) ==
    IF a \in DOMAIN pdb THEN Ok(pdb[a].balance)
    ELSE IF answer = Unavailable THEN Err("SourceUnavailable")
    ELSE Ok(answer.balance)

\* RpcDb::get_sp1_input: the recorded proofs, keyed by address.
GetSp1Input(pdb, prev, blk) ==
    [prev_block |-> prev,
     block |-> blk,
     address_to_proof |-> [a \in DOMAIN pdb |-> pdb[a].proof]]

\* WitnessDb: the account a witness stands for; an absent account reads as
\* the empty account.
WitnessAccount(p) ==
    IF p.account_proof.info.some THEN p.account_proof.info.val.balance ELSE 0

\* WitnessDb::basic: a miss is an error, never a default.
RECURSIVE WitnessReads(_, _)
WitnessReads(witnesses, touches) ==
    IF touches = <<>> THEN Ok("unit")
    ELSE IF Head(touches) \notin DOMAIN witnesses THEN Err("MissingWitnessData")
    ELSE WitnessReads(witnesses, Tail(touches))

\* The executor's output: the state delta is a function of the block and of
\* the accounts it read.
ExecOutput(facts, accounts) == [a \in Range(facts.touches) |-> accounts[a]]

\* block.clone().with_recovered_senders().ok_or(SenderRecoveryError)?
RecoverSenders(facts) ==
    IF facts.senders_ok THEN Ok("unit") ELSE Err("SenderRecoveryError")

\* The end of executor.execute once every read is served.
ExecFinish(facts, accounts) ==
    IF facts.validation.some THEN Err(facts.validation.val)
    ELSE Ok(ExecOutput(facts, accounts))

\* executor.execute over CacheDB<WitnessDb>, senders recovered first.
ExecuteOnWitness(input, facts) ==
    LET senders == RecoverSenders(facts)
        served == WitnessReads(input.address_to_proof, facts.touches)
    IN IF ~IsOk(senders) THEN senders
       ELSE IF ~IsOk(served) THEN served
       ELSE ExecFinish(facts, [a \in DOMAIN input.address_to_proof |->
                                  WitnessAccount(input.address_to_proof[a])])

\* `?` on a Result inside get_input: where control goes next.
Propagate(r, next) == IF IsOk(r) THEN next ELSE "panicked"

\* What get_input has returned once `?` saw r.
Returned(r) == IF IsOk(r) THEN NotRun ELSE r

\* Mutant: the discovery execution's error is dropped, get_input carries on.
DiscoveryPropagate_Swallowed(r, next) == next

\* `?` on the discovery execution's outcome (sender recovery, a failed read,
\* the executor's verdict).
DiscoveryPropagate(r, next) == Propagate(r, next)

\* ------------------------------------------------------------------ Spec: main

Init ==
    /\ ConvIdle
    /\ VerifyIdle
    /\ pc = "get_block"
    /\ net \in [block : NodeBlocks, prev_block : NodeBlocks, facts : BlockFacts]
    /\ block = None
    /\ prev_block = None
    /\ provider_db = <<>>
    /\ db = <<>>
    /\ reads = 0
    /\ queried = {}
    /\ disc_result = NotRun
    /\ disc_runs = 0
    /\ sp1_input = None
    /\ replay_result = NotRun
    /\ input_result = NotRun
    /\ stf_result = NotRun

\* provider.get_block_by_number(n).await?.ok_or("block not found")? and its conversion.
Fetched(answer, missing) ==
    IF ~answer.some THEN Err(missing) ELSE BlockTryFrom(answer.val, optimism)

\* get_input: the target block is fetched and converted; main's expect
\* panics on an Err.
FetchBlock ==
    /\ pc = "get_block"
    /\ LET r == Fetched(net.block, "block not found")
       IN /\ block' = IF IsOk(r) THEN Some(r.val) ELSE block
          /\ input_result' = Returned(r)
          /\ pc' = Propagate(r, "get_prev_block")
    /\ UNCHANGED <<net, prev_block, provider_db, db, reads, queried, disc_result,
                   disc_runs, sp1_input, replay_result, stf_result, convVars, verifyVars>>

\* get_input: the previous block is fetched and converted.
FetchPrevBlock ==
    /\ pc = "get_prev_block"
    /\ LET r == Fetched(net.prev_block, "prev_block not found")
       IN /\ prev_block' = IF IsOk(r) THEN Some(r.val) ELSE prev_block
          /\ input_result' = Returned(r)
          /\ pc' = Propagate(r, "fetch_account")
    /\ UNCHANGED <<net, block, provider_db, db, reads, queried, disc_result,
                   disc_runs, sp1_input, replay_result, stf_result, convVars, verifyVars>>

\* get_input: provider_db and db are built, and the hardcoded address is
\* fetched through provider_db; the outcome is only printed.
FetchHardcodedAccount ==
    /\ pc = "fetch_account"
    /\ \E answer \in AccountAnswers \cup {Unavailable} :
          provider_db' = RpcDbAfterFetch(provider_db, HardcodedAddress, answer)
    /\ pc' = "discovery"
    /\ UNCHANGED <<net, block, prev_block, db, reads, queried, disc_result, disc_runs,
                   sp1_input, replay_result, input_result, stf_result, convVars, verifyVars>>

\* get_input: the senders are recovered and the first execution starts.
DiscoveryStart ==
    /\ pc = "discovery"
    /\ disc_runs' = disc_runs + 1
    /\ LET r == RecoverSenders(net.facts)
       IN /\ disc_result' = Returned(r)
          /\ input_result' = Returned(r)
          /\ pc' = DiscoveryPropagate(r, "discovery_read")
    /\ UNCHANGED <<net, block, prev_block, provider_db, db, reads, queried,
                   sp1_input, replay_result, stf_result, convVars, verifyVars>>

\* The executor reads an account CacheDB already holds.
DiscoveryReadCached ==
    /\ pc = "discovery_read"
    /\ reads < Len(net.facts.touches)
    /\ net.facts.touches[reads + 1] \in DOMAIN db
    /\ reads' = reads + 1
    /\ UNCHANGED <<pc, net, block, prev_block, provider_db, db, queried, disc_result,
                   disc_runs, sp1_input, replay_result, input_result, stf_result,
                   convVars, verifyVars>>

\* The executor reads an account CacheDB does not hold: CacheDB asks
\* provider_db, which answers from its map or from the node.
DiscoveryReadFetch ==
    /\ pc = "discovery_read"
    /\ reads < Len(net.facts.touches)
    /\ LET a == net.facts.touches[reads + 1]
       IN /\ a \notin DOMAIN db
          /\ \E answer \in AccountAnswers \cup {Unavailable} :
                LET got == RpcDbFetched(provider_db, a, answer)
                IN /\ provider_db' = RpcDbAfterFetch(provider_db, a, answer)
                   /\ queried' = queried \cup {a}
                   /\ db' = IF IsOk(got)
                            THEN [x \in (DOMAIN db) \cup {a} |->
                                    IF x = a THEN got.val ELSE db[x]]
                            ELSE db
                   /\ reads' = IF IsOk(got) THEN reads + 1 ELSE reads
                   /\ disc_result' = Returned(got)
                   /\ input_result' = Returned(got)
                   /\ pc' = DiscoveryPropagate(got, "discovery_read")
    /\ UNCHANGED <<net, block, prev_block, disc_runs, sp1_input, replay_result,
                   stf_result, convVars, verifyVars>>

\* The first execution ends: a validation error, or the output.
DiscoveryFinish ==
    /\ pc = "discovery_read"
    /\ reads = Len(net.facts.touches)
    /\ LET r == ExecFinish(net.facts, db)
       IN /\ disc_result' = r
          /\ input_result' = Returned(r)
          /\ pc' = DiscoveryPropagate(r, "get_sp1_input")
    /\ UNCHANGED <<net, block, prev_block, provider_db, db, reads, queried, disc_runs,
                   sp1_input, replay_result, stf_result, convVars, verifyVars>>

\* let sp1_input = provider_db.get_sp1_input(&prev_block, &block).await;
CollectInput ==
    /\ pc = "get_sp1_input"
    /\ sp1_input' = Some(GetSp1Input(provider_db, prev_block.val, block.val))
    /\ pc' = "replay"
    /\ UNCHANGED <<net, block, prev_block, provider_db, db, reads, queried, disc_result,
                   disc_runs, replay_result, input_result, stf_result, convVars, verifyVars>>

\* get_input: WitnessDb is built from sp1_input and the block is executed
\* over it; the output is dropped.
Replay ==
    /\ pc = "replay"
    /\ LET r == ExecuteOnWitness(sp1_input.val, net.facts)
       IN /\ replay_result' = r
          /\ input_result' = Returned(r)
          /\ pc' = Propagate(r, "return")
    /\ UNCHANGED <<net, block, prev_block, provider_db, db, reads, queried, disc_result,
                   disc_runs, sp1_input, stf_result, convVars, verifyVars>>

\* Ok(sp1_input.clone())
ReturnInput ==
    /\ pc = "return"
    /\ input_result' = Ok(sp1_input.val)
    /\ pc' = "verify_stf"
    /\ UNCHANGED <<net, block, prev_block, provider_db, db, reads, queried, disc_result,
                   disc_runs, sp1_input, replay_result, stf_result, convVars, verifyVars>>

\* main: verify_stf(sp1_input).expect(..): the block is executed once more
\* over a WitnessDb built from the input.
VerifyStf ==
    /\ pc = "verify_stf"
    /\ LET r == ExecuteOnWitness(input_result.val, net.facts)
       IN /\ stf_result' = IF IsOk(r) THEN Ok("unit") ELSE r
          /\ pc' = Propagate(r, "done")
    /\ UNCHANGED <<net, block, prev_block, provider_db, db, reads, queried, disc_result,
                   disc_runs, sp1_input, replay_result, input_result, convVars, verifyVars>>

Next ==
    \/ FetchBlock
    \/ FetchPrevBlock
    \/ FetchHardcodedAccount
    \/ DiscoveryStart
    \/ DiscoveryReadCached
    \/ DiscoveryReadFetch
    \/ DiscoveryFinish
    \/ CollectInput
    \/ Replay
    \/ ReturnInput
    \/ VerifyStf

Spec == Init /\ [][Next]_vars

\* ------------------------------------------------------------------ claims on Spec

ReplayStarted == replay_result # NotRun \/ stf_result # NotRun

\* C1: a replay execution over the witness store (in get_input, in
\* verify_stf) has started only if verify(parent_state_root) returns no error
\* for every FullAccountProof of the input's address_to_proof.
C1_SealingPrecedesReplay ==
    ReplayStarted =>
      \A a \in DOMAIN sp1_input.val.address_to_proof :
          ~IsErr(FullAccountProofVerify(sp1_input.val.address_to_proof[a],
                                        prev_block.val.header.state_root))

\* C2: get_input returns an ExecutionInput as a success only if the output
\* of the discovery execution and the output of the replay execution match
\* exactly.
C2_EquivalenceChecked ==
    IsOk(input_result) => disc_result = replay_result

\* C5: once the input is collected, the addresses keyed in address_to_proof
\* are exactly the addresses the block's execution queried from the
\* network-backed store during discovery.
C5_ReadSetExact ==
    sp1_input.some => DOMAIN sp1_input.val.address_to_proof = queried

\* C6: when the discovery execution reports an error (sender recovery, the
\* executor's validation), get_input has returned that same error, the
\* discovery execution was started once, no input was collected and no replay
\* execution was started.
C6_DiscoveryErrorAborts ==
    IsErr(disc_result) =>
      /\ input_result = disc_result
      /\ pc = "panicked"
      /\ disc_runs = 1
      /\ sp1_input = None
      /\ ~ReplayStarted

\* C6 witness: the executor read an account and then reported a validation
\* error, and get_input returned it.
C6_Witness ==
    /\ reads > 0
    /\ disc_result = Err("BlockGasUsed")
    /\ input_result = Err("BlockGasUsed")

====
